---- MODULE Spec2Model ----
(***************************************************************************)
(* Model of the NoSQL_DB storage engine: the B+tree index                  *)
(* (internal/index/btree.go), the collection with its persistence          *)
(* (internal/storage/collection.go) and the command handlers               *)
(* (insert / find / delete / create_index).                                *)
(*                                                                         *)
(* Pointers of the Go code are indices into an arena `nodes` (a sequence   *)
(* of node records); index 0 is the nil pointer.  Keys and values are      *)
(* byte strings, modelled as sequences of byte values.                     *)
(***************************************************************************)
EXTENDS Integers, Sequences, FiniteSets, TLC

VARIABLES
    tree,       \* the B+tree under test (SpecTree)
    inserted,   \* the (key, value) pairs given to Insert so far, in call order
    reloaded,   \* TRUE once the tree has been saved to and loaded from its file
    dataFiles,  \* data/<name>.json per collection: the JSON object _id -> document
    idxFiles,   \* data/indexes/: file name -> the IndexFile written there
    out,        \* what the last command did and answered
    insertOrder, \* per collection, the ids of its documents in the order of their inserts
    coll,       \* a Collection object held in memory (SpecColl, SpecDocs)
    insertLog,  \* the documents Collection.Insert stored in coll, in call order
    race,       \* the insert commands two connections run at once (SpecRace)
    conn        \* one TCP connection in handleConnection (SpecConn)

treeVars == <<tree, inserted, reloaded>>
diskVars == <<dataFiles, idxFiles, out, insertOrder>>
memVars == <<coll, insertLog>>
netVars == <<race, conn>>
vars == <<tree, inserted, reloaded, dataFiles, idxFiles, out, insertOrder, coll, insertLog,
          race, conn>>

-----------------------------------------------------------------------------
(* Generic helpers *)

Min(S) == CHOOSE x \in S : \A y \in S : x <= y

Range(s) == {s[i] : i \in 1..Len(s)}

\* seq with x put at 0-based position pos (append(s, nil); copy(s[pos+1:], s[pos:]); s[pos] = x)
InsertAt(s, pos, x) == SubSeq(s, 1, pos) \o <<x>> \o SubSeq(s, pos + 1, Len(s))

RECURSIVE Flatten(_)
Flatten(ss) == IF ss = <<>> THEN <<>> ELSE Head(ss) \o Flatten(Tail(ss))

\* the nil pointer / nil slice of the Go code
Nil == 0
NilKey == <<>>

-----------------------------------------------------------------------------
(* bytes.Compare / bytes.Equal on byte strings *)

BytesCompare(a, b) ==
    LET n == IF Len(a) < Len(b) THEN Len(a) ELSE Len(b)
        diff == {i \in 1..n : a[i] # b[i]}
    IN  IF diff # {}
        THEN (IF a[Min(diff)] < b[Min(diff)] THEN -1 ELSE 1)
        ELSE IF Len(a) < Len(b) THEN -1
        ELSE IF Len(a) > Len(b) THEN 1
        ELSE 0

BytesEqual(a, b) == a = b

\* the keys of S in ascending byte order
RECURSIVE Ascending(_)
Ascending(S) ==
    IF S = {} THEN <<>>
    ELSE LET m == CHOOSE x \in S : \A y \in S : BytesCompare(x, y) <= 0
         IN  <<m>> \o Ascending(S \ {m})

\* cmdCreateIndex, RebuildAllIndexes and SaveIndex all pass the order 64;
\* the model scales it down so that splits occur within the bounds
IndexOrder == 1

-----------------------------------------------------------------------------
(* internal/index/btree.go *)

\* type Node struct
Node(isLeaf, keys, values, children, next, parent) ==
    [isLeaf |-> isLeaf, keys |-> keys, values |-> values,
     children |-> children, next |-> next, parent |-> parent]

NewBPlusTree(order) ==
    [root |-> 1, order |-> order,
     nodes |-> <<Node(TRUE, <<>>, <<>>, <<>>, Nil, Nil)>>]

NewNode(isLeaf) == Node(isLeaf, <<>>, <<>>, <<>>, Nil, Nil)

\* first child i with key < keys[i], else the rightmost child
findLeaf_le(t, n, key) ==
    LET RECURSIVE go(_)
        go(m) ==
            LET node == t.nodes[m]
                hits == {i \in 1..Len(node.keys) : BytesCompare(key, node.keys[i]) <= 0}
            IN  IF node.isLeaf THEN m
                ELSE IF hits # {} THEN go(node.children[Min(hits)])
                ELSE go(node.children[Len(node.children)])
    IN go(n)

RECURSIVE findLeaf(_, _, _)
findLeaf(t, n, key) ==
    LET node == t.nodes[n]
        hits == {i \in 1..Len(node.keys) : BytesCompare(key, node.keys[i]) < 0}
    IN  IF node.isLeaf THEN n
        ELSE IF hits # {} THEN findLeaf(t, node.children[Min(hits)], key)
        ELSE findLeaf(t, node.children[Len(node.children)], key)

\* the loop `for pos < len(keys) && bytes.Compare(keys[pos], key) < 0 { pos++ }`
ScanPos(keys, key) ==
    Min({p \in 0..Len(keys) :
            p = Len(keys) \/ ~(BytesCompare(keys[p + 1], key) < 0)})

insertInLeaf_prepend(t, leaf, key, value) ==
    LET node == t.nodes[leaf]
        pos == ScanPos(node.keys, key)
    IN  IF pos < Len(node.keys) /\ BytesEqual(node.keys[pos + 1], key)
        THEN [t EXCEPT !.nodes[leaf].values[pos + 1] = <<value>> \o @]
        ELSE [t EXCEPT !.nodes[leaf].keys = InsertAt(@, pos, key),
                       !.nodes[leaf].values = InsertAt(@, pos, <<value>>)]

insertInLeaf(t, leaf, key, value) ==
    LET node == t.nodes[leaf]
        pos == ScanPos(node.keys, key)
    IN  IF pos < Len(node.keys) /\ BytesEqual(node.keys[pos + 1], key)
        THEN [t EXCEPT !.nodes[leaf].values[pos + 1] = Append(@, value)]
        ELSE [t EXCEPT !.nodes[leaf].keys = InsertAt(@, pos, key),
                       !.nodes[leaf].values = InsertAt(@, pos, <<value>>)]

RECURSIVE insertInParent(_, _, _, _)
RECURSIVE splitInternal(_, _)

insertInParent(t, left, key, right) ==
    IF t.nodes[left].parent = Nil
    THEN LET newRoot == Len(t.nodes) + 1
         IN  [t EXCEPT !.nodes = Append([@ EXCEPT ![left].parent = newRoot,
                                                  ![right].parent = newRoot],
                                        Node(FALSE, <<key>>, <<>>, <<left, right>>, Nil, Nil)),
                       !.root = newRoot]
    ELSE LET parent == t.nodes[left].parent
             pos == ScanPos(t.nodes[parent].keys, key)
             t1 == [t EXCEPT !.nodes[parent].keys = InsertAt(@, pos, key),
                             !.nodes[parent].children = InsertAt(@, pos + 1, right),
                             !.nodes[right].parent = parent]
         IN  IF Len(t1.nodes[parent].keys) > t1.order * 2 - 1
             THEN splitInternal(t1, parent)
             ELSE t1

\* splitInternal that leaves a copy of the promoted key in the new node
splitInternal_copyUp(t, n) ==
    LET node == t.nodes[n]
        mid == Len(node.keys) \div 2
        keyToPushUp == node.keys[mid + 1]
        newNode == Len(t.nodes) + 1
        moved == SubSeq(node.children, mid + 2, Len(node.children))
        withNew == Append(t.nodes,
                          Node(FALSE, SubSeq(node.keys, mid + 1, Len(node.keys)),
                               <<>>, moved, Nil, node.parent))
        \* the loop `for _, child := range newNode.children`
        RECURSIVE reparent(_, _)
        reparent(nodes, kids) ==
            IF kids = <<>> THEN nodes
            ELSE reparent([nodes EXCEPT ![Head(kids)].parent = newNode], Tail(kids))
        reparented == reparent(withNew, moved)
        t1 == [t EXCEPT !.nodes = [reparented EXCEPT
                                     ![n].keys = SubSeq(node.keys, 1, mid),
                                     ![n].children = SubSeq(node.children, 1, mid + 1)]]
    IN  insertInParent(t1, n, keyToPushUp, newNode)

splitInternal(t, n) ==
    LET node == t.nodes[n]
        mid == Len(node.keys) \div 2
        keyToPushUp == node.keys[mid + 1]
        newNode == Len(t.nodes) + 1
        moved == SubSeq(node.children, mid + 2, Len(node.children))
        withNew == Append(t.nodes,
                          Node(FALSE, SubSeq(node.keys, mid + 2, Len(node.keys)),
                               <<>>, moved, Nil, node.parent))
        \* the loop `for _, child := range newNode.children`
        RECURSIVE reparent(_, _)
        reparent(nodes, kids) ==
            IF kids = <<>> THEN nodes
            ELSE reparent([nodes EXCEPT ![Head(kids)].parent = newNode], Tail(kids))
        reparented == reparent(withNew, moved)
        t1 == [t EXCEPT !.nodes = [reparented EXCEPT
                                     ![n].keys = SubSeq(node.keys, 1, mid),
                                     ![n].children = SubSeq(node.children, 1, mid + 1)]]
    IN  insertInParent(t1, n, keyToPushUp, newNode)

splitLeaf_dropMid(t, leaf) ==
    LET node == t.nodes[leaf]
        mid == Len(node.keys) \div 2
        newLeaf == Len(t.nodes) + 1
        newKeys == SubSeq(node.keys, mid + 1, Len(node.keys))
        t1 == [t EXCEPT !.nodes =
                  Append([@ EXCEPT ![leaf].keys = SubSeq(node.keys, 1, mid - 1),
                                   ![leaf].values = SubSeq(node.values, 1, mid - 1),
                                   ![leaf].next = newLeaf],
                         Node(TRUE, newKeys,
                              SubSeq(node.values, mid + 1, Len(node.values)),
                              <<>>, node.next, node.parent))]
    IN  insertInParent(t1, leaf, newKeys[1], newLeaf)

splitLeaf(t, leaf) ==
    LET node == t.nodes[leaf]
        mid == Len(node.keys) \div 2
        newLeaf == Len(t.nodes) + 1
        newKeys == SubSeq(node.keys, mid + 1, Len(node.keys))
        t1 == [t EXCEPT !.nodes =
                  Append([@ EXCEPT ![leaf].keys = SubSeq(node.keys, 1, mid),
                                   ![leaf].values = SubSeq(node.values, 1, mid),
                                   ![leaf].next = newLeaf],
                         Node(TRUE, newKeys,
                              SubSeq(node.values, mid + 1, Len(node.values)),
                              <<>>, node.next, node.parent))]
    IN  insertInParent(t1, leaf, newKeys[1], newLeaf)

\* BTree.Insert that splits a leaf one key later
Insert_lateSplit(t, key, value) ==
    LET leaf == findLeaf(t, t.root, key)
        t1 == insertInLeaf(t, leaf, key, value)
    IN  IF Len(t1.nodes[leaf].keys) > t1.order * 2
        THEN splitLeaf(t1, leaf)
        ELSE t1

\* BTree.Insert (tree.root is never nil: every tree comes from NewBPlusTree
\* or from deserializeBTree, which both set a root)
Insert(t, key, value) ==
    LET leaf == findLeaf(t, t.root, key)
        t1 == insertInLeaf(t, leaf, key, value)
    IN  IF Len(t1.nodes[leaf].keys) > t1.order * 2 - 1
        THEN splitLeaf(t1, leaf)
        ELSE t1

\* BTree.Search; the nil result is the empty list
Search(t, key) ==
    LET leaf == t.nodes[findLeaf(t, t.root, key)]
        hits == {i \in 1..Len(leaf.keys) : BytesEqual(leaf.keys[i], key)}
    IN  IF hits # {} THEN leaf.values[Min(hits)] ELSE <<>>

RECURSIVE findLeftmostLeaf(_, _)
findLeftmostLeaf(t, n) ==
    IF n = Nil THEN Nil
    ELSE IF ~t.nodes[n].isLeaf /\ Len(t.nodes[n].children) > 0
         THEN findLeftmostLeaf(t, t.nodes[n].children[1])
         ELSE n

\* BTree.RangeSearch: start / end are NilKey when absent
RangeSearch_endInclusive(t, start, end, includeStart, includeEnd) ==
    LET RECURSIVE scan(_, _, _)
        scan(leaf, i, acc) ==
            IF i > Len(leaf.keys) THEN acc
            ELSE LET k == leaf.keys[i]
                 IN  IF start # NilKey
                        /\ (BytesCompare(k, start) < 0
                            \/ (BytesCompare(k, start) = 0 /\ ~includeStart))
                     THEN scan(leaf, i + 1, acc)
                     ELSE IF end # NilKey /\ BytesCompare(k, end) > 0
                     THEN acc
                     ELSE scan(leaf, i + 1, acc \o leaf.values[i])
        RECURSIVE walk(_, _)
        walk(n, acc) ==
            IF n = Nil THEN acc
            ELSE walk(t.nodes[n].next, scan(t.nodes[n], 1, acc))
    IN  walk(IF start = NilKey THEN findLeftmostLeaf(t, t.root)
             ELSE findLeaf(t, t.root, start), <<>>)

RangeSearch(t, start, end, includeStart, includeEnd) ==
    LET RECURSIVE scan(_, _, _)
        \* the inner loop over leaf.keys; returned = the `return result` was taken
        scan(leaf, i, acc) ==
            IF i > Len(leaf.keys) THEN [result |-> acc, returned |-> FALSE]
            ELSE LET k == leaf.keys[i]
                 IN  IF start # NilKey
                        /\ (BytesCompare(k, start) < 0
                            \/ (BytesCompare(k, start) = 0 /\ ~includeStart))
                     THEN scan(leaf, i + 1, acc)
                     ELSE IF end # NilKey
                             /\ (BytesCompare(k, end) > 0
                                 \/ (BytesCompare(k, end) = 0 /\ ~includeEnd))
                     THEN [result |-> acc, returned |-> TRUE]
                     ELSE scan(leaf, i + 1, acc \o leaf.values[i])
        RECURSIVE walk(_, _)
        \* the outer loop over the sibling chain
        walk(n, acc) ==
            IF n = Nil THEN acc
            ELSE LET leaf == t.nodes[n]
                     r == scan(leaf, 1, acc)
                 IN  IF r.returned THEN r.result
                     ELSE IF end # NilKey /\ Len(leaf.keys) > 0
                             /\ BytesCompare(leaf.keys[Len(leaf.keys)], end) >= 0
                     THEN r.result
                     ELSE walk(leaf.next, r.result)
    IN  walk(IF start = NilKey THEN findLeftmostLeaf(t, t.root)
             ELSE findLeaf(t, t.root, start), <<>>)

SearchGreaterThan(t, key) == RangeSearch(t, key, NilKey, FALSE, FALSE)

SearchLessThan(t, key) == RangeSearch(t, NilKey, key, FALSE, FALSE)

SearchGreaterThanOrEqual(t, key) == RangeSearch(t, key, NilKey, TRUE, FALSE)

SearchLessThanOrEqual(t, key) == RangeSearch(t, NilKey, key, FALSE, TRUE)

\* BTree.SearchIn: Search per key, concatenated in argument order
SearchIn(t, keys) == Flatten([i \in 1..Len(keys) |-> Search(t, keys[i])])

\* BTree.GetAllValues
GetAllValues(t) ==
    LET RECURSIVE walk(_, _)
        walk(n, acc) ==
            IF n = Nil THEN acc
            ELSE walk(t.nodes[n].next, acc \o Flatten(t.nodes[n].values))
    IN  walk(findLeftmostLeaf(t, t.root), <<>>)

-----------------------------------------------------------------------------
(* internal/storage/collection.go: the persisted form of an index.         *)
(* IndexFile = [Field, Order, Nodes]; SerializedNode = [IsLeaf, Keys,      *)
(* Values, Children].  Children hold positions in Nodes (the Go index + 1).*)

\* the BFS over the tree that both loops of serializeBTree perform; the
\* second loop skips a node it has visited already
BFSOrder(t) ==
    LET RECURSIVE bfs(_, _)
        bfs(queue, seen) ==
            IF queue = <<>> THEN seen
            ELSE LET n == Head(queue)
                     node == t.nodes[n]
                     kids == IF node.isLeaf THEN <<>> ELSE node.children
                 IN  IF n \in Range(seen)
                     THEN bfs(Tail(queue), seen)
                     ELSE bfs(Tail(queue) \o kids, Append(seen, n))
    IN  bfs(<<t.root>>, <<>>)

\* nodeIndexMap[node]
NodeIndex(order, n) == Min({i \in 1..Len(order) : order[i] = n})

serializeBTree_keysOnly(t, fieldName, order) ==
    LET bfs == BFSOrder(t)
    IN  [Field |-> fieldName, Order |-> order,
         Nodes |-> [i \in 1..Len(bfs) |->
                      LET node == t.nodes[bfs[i]]
                      IN  [IsLeaf |-> node.isLeaf,
                           Keys |-> node.keys,
                           Values |-> IF node.isLeaf
                                      THEN [j \in 1..Len(node.values) |->
                                               SubSeq(node.values[j], 1, 1)]
                                      ELSE <<>>,
                           Children |-> IF node.isLeaf THEN <<>>
                                        ELSE [j \in 1..Len(node.children) |->
                                                NodeIndex(bfs, node.children[j])]]]]

serializeBTree(t, fieldName, order) ==
    LET bfs == BFSOrder(t)
    IN  [Field |-> fieldName, Order |-> order,
         Nodes |-> [i \in 1..Len(bfs) |->
                      LET node == t.nodes[bfs[i]]
                      IN  [IsLeaf |-> node.isLeaf,
                           Keys |-> node.keys,
                           Values |-> IF node.isLeaf THEN node.values ELSE <<>>,
                           Children |-> IF node.isLeaf THEN <<>>
                                        ELSE [j \in 1..Len(node.children) |->
                                                NodeIndex(bfs, node.children[j])]]]]

deserializeBTree_noChain(data) ==
    IF Len(data.Nodes) = 0 THEN NewBPlusTree(data.Order)
    ELSE [root |-> 1, order |-> data.Order,
          nodes |-> [i \in 1..Len(data.Nodes) |->
                       LET sn == data.Nodes[i]
                           parents == {p \in 1..Len(data.Nodes) :
                                         /\ ~data.Nodes[p].IsLeaf
                                         /\ i \in Range(data.Nodes[p].Children)}
                       IN  Node(sn.IsLeaf, sn.Keys,
                                IF sn.IsLeaf THEN sn.Values ELSE <<>>,
                                IF sn.IsLeaf THEN <<>> ELSE sn.Children,
                                Nil,
                                IF parents = {} THEN Nil
                                ELSE CHOOSE p \in parents : \A q \in parents : q <= p)]]

deserializeBTree(data) ==
    IF Len(data.Nodes) = 0 THEN NewBPlusTree(data.Order)
    ELSE LET n == Len(data.Nodes)
             \* a child index is linked only if it is < len(nodes)
             kids(i) == LET c == data.Nodes[i].Children
                            RECURSIVE keep(_)
                            keep(s) == IF s = <<>> THEN <<>>
                                       ELSE IF Head(s) <= n
                                            THEN <<Head(s)>> \o keep(Tail(s))
                                            ELSE keep(Tail(s))
                        IN  IF data.Nodes[i].IsLeaf THEN <<>> ELSE keep(c)
             \* SetParent is called in node order: the last caller wins
             parents(i) == {p \in 1..n : i \in Range(kids(p))}
             \* the next leaf in node-array order
             laterLeaves(i) == {j \in (i + 1)..n : data.Nodes[j].IsLeaf}
         IN  [root |-> 1, order |-> data.Order,
              nodes |-> [i \in 1..n |->
                           LET sn == data.Nodes[i]
                           IN  Node(sn.IsLeaf, sn.Keys,
                                    IF sn.IsLeaf THEN sn.Values ELSE <<>>,
                                    kids(i),
                                    IF sn.IsLeaf /\ laterLeaves(i) # {}
                                    THEN Min(laterLeaves(i)) ELSE Nil,
                                    IF parents(i) = {} THEN Nil
                                    ELSE CHOOSE p \in parents(i) :
                                            \A q \in parents(i) : q <= p)]]

-----------------------------------------------------------------------------
(* Values and key encoding.  A value is a JSON number (decoded as float64) *)
(* or a string (its UTF-8 bytes).  Names (collections, fields) are         *)
(* sequences of the tokens that "_" separates: "a_b" is <<"a", "b">>.      *)

Num(n) == [k |-> "num", n |-> n]
Str(b) == [k |-> "str", b |-> b]

\* the 8 key bytes of a float64 n (0 <= n < 32, an integer): its IEEE-754
\* big-endian bits with the sign bit flipped
FloatKeyBytes(n) ==
    IF n = 0 THEN <<128, 0, 0, 0, 0, 0, 0, 0>>
    ELSE LET e == CHOOSE x \in 0..4 : 2^x <= n /\ n < 2^(x + 1)
             top16 == (1023 + e) * 16 + ((n - 2^e) * 16) \div (2^e)
             flipped == top16 + 32768
         IN  <<flipped \div 256, flipped % 256, 0, 0, 0, 0, 0, 0>>

\* index.ValueToKey: a one-byte type tag (float = 4, string = 5), then the
\* payload
ValueToKey(v) ==
    IF v.k = "num" THEN <<4>> \o FloatKeyBytes(v.n) ELSE <<5>> \o v.b

\* index.ValuesToStrings: the document ids are the value bytes themselves
ValuesToStrings(values) == values

-----------------------------------------------------------------------------
(* The matcher (operators.MatchDocument).  A query is a set of conditions  *)
(* [field, pred], one per key of the JSON object; a predicate is a bare    *)
(* value or a mapping from comparator names to operands.                   *)

BarePred(v) == [kind |-> "value", v |-> v]
OpsPred(ops) == [kind |-> "ops", ops |-> ops]

\* numeric or lexicographic order; operands of different kinds do not compare
ValLess(a, b) ==
    /\ a.k = b.k
    /\ IF a.k = "num" THEN a.n < b.n ELSE BytesCompare(a.b, b.b) < 0

\* the bytes of '%' and '_' in a $like pattern
Percent == 37
Underscore == 95

\* $like: '%' stands for any run of characters, '_' for exactly one; the
\* pattern is anchored at both ends
RECURSIVE LikeMatch(_, _)
LikeMatch(str, pattern) ==
    IF pattern = <<>> THEN str = <<>>
    ELSE IF Head(pattern) = Percent
         THEN \/ LikeMatch(str, Tail(pattern))
              \/ str # <<>> /\ LikeMatch(Tail(str), pattern)
         ELSE /\ str # <<>>
              /\ Head(pattern) = Underscore \/ Head(pattern) = Head(str)
              /\ LikeMatch(Tail(str), Tail(pattern))

MatchOp(doc, field, op, arg) ==
    /\ field \in DOMAIN doc
    /\ CASE op = "$eq" -> doc[field] = arg
         [] op = "$gt" -> ValLess(arg, doc[field])
         [] op = "$gte" -> ValLess(arg, doc[field]) \/ doc[field] = arg
         [] op = "$lt" -> ValLess(doc[field], arg)
         [] op = "$lte" -> ValLess(doc[field], arg) \/ doc[field] = arg
         [] op = "$in" -> \E i \in 1..Len(arg) : doc[field] = arg[i]
         [] op = "$like" -> /\ doc[field].k = "str"
                            /\ arg.k = "str"
                            /\ LikeMatch(doc[field].b, arg.b)

MatchPredicate(doc, field, pred) ==
    IF pred.kind = "value"
    THEN field \in DOMAIN doc /\ doc[field] = pred.v
    ELSE \A op \in DOMAIN pred.ops : MatchOp(doc, field, op, pred.ops[op])

\* every key of the condition mapping must hold
MatchDocument(doc, conditions) ==
    \A c \in conditions : MatchPredicate(doc, c.field, c.pred)

-----------------------------------------------------------------------------
(* The document store (storage.HashMap): a lookup parallel to an ordered   *)
(* list of ids, kept here as one sequence of [id, doc] in insertion order. *)

NewHashMap == <<>>

HasKey(h, id) == \E i \in 1..Len(h) : h[i].id = id

\* insert or replace; a replaced id keeps its place in the order
Put(h, id, doc) ==
    IF HasKey(h, id)
    THEN [i \in 1..Len(h) |-> IF h[i].id = id THEN [id |-> id, doc |-> doc] ELSE h[i]]
    ELSE Append(h, [id |-> id, doc |-> doc])

Get(h, id) == h[CHOOSE i \in 1..Len(h) : h[i].id = id].doc

Remove(h, id) ==
    LET RECURSIVE drop(_)
        drop(l) == IF l = <<>> THEN <<>>
                   ELSE IF l[1].id = id THEN drop(Tail(l))
                   ELSE <<l[1]>> \o drop(Tail(l))
    IN  drop(h)

Items(h) == h

-----------------------------------------------------------------------------
(* internal/storage/collection.go: Collection = [Name, Data, Indexes]      *)

IdField == <<"_id">>

NewCollection(name) == [Name |-> name, Data |-> NewHashMap, Indexes |-> <<>>]

\* the sequences that enumerate the set S, each element once
Perms(S) ==
    {p \in [1..Cardinality(S) -> S] : \A i, j \in 1..Cardinality(S) : p[i] = p[j] => i = j}

\* LoadCollection: the JSON object is decoded into a Go map and `range` over
\* it puts the entries in an order of the runtime's choosing (ord)
LoadCollection(name, file, ord) ==
    [Name |-> name,
     Data |-> [i \in 1..Len(ord) |-> [id |-> ord[i], doc |-> file[ord[i]]]],
     Indexes |-> <<>>]

\* Collection.Save: the items as one JSON object, _id -> document
Save(c) == [id \in {c.Data[i].id : i \in 1..Len(c.Data)} |-> Get(c.Data, id)]

\* Collection.All
All(c) == [i \in 1..Len(Items(c.Data)) |-> Items(c.Data)[i].doc]

HasIndex(c, fieldName) == fieldName \in DOMAIN c.Indexes

GetByID(c, id) == Get(c.Data, id)

\* a function with one more (or one replaced) entry
WithEntry(f, k, v) == [x \in DOMAIN f \cup {k} |-> IF x = k THEN v ELSE f[x]]

\* Collection.updateIndexesOnInsert
updateIndexesOnInsert(c, docID, doc) ==
    [c EXCEPT !.Indexes =
        [fieldName \in DOMAIN c.Indexes |->
            IF fieldName \in DOMAIN doc
            THEN Insert(c.Indexes[fieldName], ValueToKey(doc[fieldName]), docID)
            ELSE c.Indexes[fieldName]]]

\* Collection.Insert; id is what generateID returned
CollectionInsert(c, id, fields) ==
    LET doc == WithEntry(fields, IdField, Str(id))
    IN  updateIndexesOnInsert([c EXCEPT !.Data = Put(c.Data, id, doc)], id, doc)

\* Collection.updateIndexesOnDelete: the body is empty
updateIndexesOnDelete(c, docID, doc) == c

\* Collection.Delete
CollectionDelete(c, id) ==
    IF ~HasKey(c.Data, id) THEN c
    ELSE LET c1 == updateIndexesOnDelete(c, id, GetByID(c, id))
         IN  [c1 EXCEPT !.Data = Remove(c1.Data, id)]

\* BuildIndex whose scan starts at the second document
BuildIndex_skipFirst(c, fieldName, order) ==
    LET docs == All(c)
        RECURSIVE fill(_, _)
        fill(i, t) ==
            IF i > Len(docs) THEN t
            ELSE IF fieldName \in DOMAIN docs[i]
                 THEN fill(i + 1, Insert(t, ValueToKey(docs[i][fieldName]),
                                         docs[i][IdField].b))
                 ELSE fill(i + 1, t)
    IN  fill(2, NewBPlusTree(order))

\* the tree CreateIndex and RebuildAllIndexes build by scanning c.All()
BuildIndex(c, fieldName, order) ==
    LET docs == All(c)
        RECURSIVE fill(_, _)
        fill(i, t) ==
            IF i > Len(docs) THEN t
            ELSE IF fieldName \in DOMAIN docs[i]
                 THEN fill(i + 1, Insert(t, ValueToKey(docs[i][fieldName]),
                                         docs[i][IdField].b))
                 ELSE fill(i + 1, t)
    IN  fill(1, NewBPlusTree(order))

\* data/indexes/<name>_<field>.idx
IndexPath(name, fieldName) == name \o fieldName

\* Collection.SaveIndex: the index files after the write; the order written
\* is always the constant, not the tree's
SaveIndex(c, fieldName, files) ==
    WithEntry(files, IndexPath(c.Name, fieldName),
              serializeBTree(c.Indexes[fieldName], fieldName, IndexOrder))

\* Collection.LoadIndex
LoadIndex(c, fieldName, files) ==
    IF IndexPath(c.Name, fieldName) \notin DOMAIN files THEN c
    ELSE [c EXCEPT !.Indexes =
              WithEntry(@, fieldName,
                        deserializeBTree(files[IndexPath(c.Name, fieldName)]))]

\* Collection.LoadAllIndexes: every file whose name starts with "<name>_";
\* the field name is what follows the prefix
LoadAllIndexes(c, files) ==
    LET RECURSIVE load(_, _)
        load(names, cc) ==
            IF names = {} THEN cc
            ELSE LET name == CHOOSE x \in names : TRUE
                 IN  IF Len(name) > Len(c.Name)
                        /\ SubSeq(name, 1, Len(c.Name)) = c.Name
                     THEN load(names \ {name},
                               LoadIndex(cc, SubSeq(name, Len(c.Name) + 1, Len(name)), files))
                     ELSE load(names \ {name}, cc)
    IN  load(DOMAIN files, c)

\* Collection.SaveAllIndexes
SaveAllIndexes(c, files) ==
    LET RECURSIVE save(_, _)
        save(fields, fs) ==
            IF fields = {} THEN fs
            ELSE LET f == CHOOSE x \in fields : TRUE
                 IN  save(fields \ {f}, SaveIndex(c, f, fs))
    IN  save(DOMAIN c.Indexes, files)

\* Collection.CreateIndex: [err, coll, files]
CreateIndex(c, fieldName, order, files) ==
    IF fieldName \in DOMAIN c.Indexes
    THEN [err |-> "index already exists", coll |-> c, files |-> files]
    ELSE LET c1 == [c EXCEPT !.Indexes =
                       WithEntry(@, fieldName, BuildIndex(c, fieldName, order))]
         IN  [err |-> "", coll |-> c1, files |-> SaveIndex(c1, fieldName, files)]

\* Collection.RebuildAllIndexes: [coll, files]
RebuildAllIndexes(c, files) ==
    LET c1 == [c EXCEPT !.Indexes =
                  [f \in DOMAIN c.Indexes |-> BuildIndex(c, f, IndexOrder)]]
    IN  [coll |-> c1, files |-> SaveAllIndexes(c1, files)]

-----------------------------------------------------------------------------
(* The command handlers (package main / handlers)                          *)

\* findWithIndex with a branch that answers $gte from SearchGreaterThan
findWithIndex_gteAsGt(c, field, condition) ==
    LET btree == c.Indexes[field]
        docIDs ==
            IF condition.kind = "value"
            THEN ValuesToStrings(Search(btree, ValueToKey(condition.v)))
            ELSE LET v == condition.ops
                 IN  IF "$gte" \in DOMAIN v
                     THEN ValuesToStrings(SearchGreaterThan(btree, ValueToKey(v["$gte"])))
                     ELSE IF "$gt" \in DOMAIN v
                     THEN ValuesToStrings(SearchGreaterThan(btree, ValueToKey(v["$gt"])))
                     ELSE IF "$lt" \in DOMAIN v
                     THEN ValuesToStrings(SearchLessThan(btree, ValueToKey(v["$lt"])))
                     ELSE IF "$eq" \in DOMAIN v
                     THEN ValuesToStrings(Search(btree, ValueToKey(v["$eq"])))
                     ELSE IF "$in" \in DOMAIN v
                     THEN ValuesToStrings(SearchIn(btree,
                              [i \in 1..Len(v["$in"]) |-> ValueToKey(v["$in"][i])]))
                     ELSE <<>>
        found == SelectSeq(docIDs, LAMBDA id : HasKey(c.Data, id))
    IN  IF ~HasIndex(c, field) THEN <<>>
        ELSE [i \in 1..Len(found) |-> GetByID(c, found[i])]

\* findWithIndex; the nil result is the empty list
findWithIndex(c, field, condition) ==
    LET btree == c.Indexes[field]
        docIDs ==
            IF condition.kind = "value"
            THEN ValuesToStrings(Search(btree, ValueToKey(condition.v)))
            ELSE LET v == condition.ops
                 IN  IF "$gt" \in DOMAIN v
                     THEN ValuesToStrings(SearchGreaterThan(btree, ValueToKey(v["$gt"])))
                     ELSE IF "$lt" \in DOMAIN v
                     THEN ValuesToStrings(SearchLessThan(btree, ValueToKey(v["$lt"])))
                     ELSE IF "$eq" \in DOMAIN v
                     THEN ValuesToStrings(Search(btree, ValueToKey(v["$eq"])))
                     ELSE IF "$in" \in DOMAIN v
                     THEN ValuesToStrings(SearchIn(btree,
                              [i \in 1..Len(v["$in"]) |-> ValueToKey(v["$in"][i])]))
                     ELSE <<>>
        found == SelectSeq(docIDs, LAMBDA id : HasKey(c.Data, id))
    IN  IF ~HasIndex(c, field) THEN <<>>
        ELSE [i \in 1..Len(found) |-> GetByID(c, found[i])]

\* findFullScan
findFullScan(c, conditions) ==
    SelectSeq(All(c), LAMBDA doc : MatchDocument(doc, conditions))

\* hasLogicalOperators
hasLogicalOperators(conditions) ==
    \E cond \in conditions : cond.field \in {<<"$or">>, <<"$and">>}

\* the collection a find or a delete works on: LoadCollection, LoadAllIndexes
Loaded(name, ord) == LoadAllIndexes(LoadCollection(name, dataFiles[name], ord), idxFiles)

\* cmdFind uses the index when the query is one condition on an indexed field
UsesIndex(c, conditions) ==
    /\ Cardinality(conditions) = 1
    /\ ~hasLogicalOperators(conditions)
    /\ \E cond \in conditions : HasIndex(c, cond.field)

\* cmdFind: the result printed; an empty index result falls through to the
\* full scan
FindResult(c, conditions) ==
    LET cond == CHOOSE x \in conditions : TRUE
        results == IF UsesIndex(c, conditions)
                   THEN findWithIndex(c, cond.field, cond.pred) ELSE <<>>
    IN  IF results = <<>> THEN findFullScan(c, conditions) ELSE results

-----------------------------------------------------------------------------
(* SpecTree: a B+tree driven by Insert calls and by save/load round trips  *)

\* bounds of the tree specification
MaxInserts == 4

\* the byte strings used as keys (one is a proper prefix of another) and
\* as values
TreeKeys == {<<1>>, <<1, 0>>, <<2>>, <<3>>}
TreeVals == {<<100>>, <<101>>}
\* the orders NewBPlusTree is called with
TreeOrders == {1, 2}

\* the collections of the model: "a", and "a_b" whose name extends it
CollA == <<"a">>
CollAB == <<"a", "b">>
AllColls == {CollA, CollAB}

NoOut == [cmd |-> "none"]

\* no command has run: no data file, no index file
IdleDisk ==
    /\ dataFiles = [c \in AllColls |-> <<>>]
    /\ idxFiles = <<>>
    /\ out = NoOut
    /\ insertOrder = [c \in AllColls |-> <<>>]

\* the tree variables of a run that uses no stand-alone tree
IdleTree ==
    /\ tree = NewBPlusTree(IndexOrder)
    /\ inserted = <<>>
    /\ reloaded = FALSE

\* the in-memory collection of a run that holds none between commands
IdleMem ==
    /\ coll = NewCollection(CollA)
    /\ insertLog = <<>>

\* the connections of the server: two clients
Conns == {"c1", "c2"}

\* a connection that has not started its insert command
IdleInsert == [pc |-> "idle", coll |-> NewCollection(CollA), id |-> <<>>, loaded |-> {}]

\* a connection accepted by TCPServer.Run, at the top of the loop of
\* handleConnection
NewConn == [pc |-> "decode", req |-> "none", decoded |-> <<>>, calls |-> <<>>,
            sent |-> <<>>, err |-> FALSE]

\* no connection has done anything
IdleNet ==
    /\ race = [conn |-> [k \in Conns |-> IdleInsert], last |-> "none"]
    /\ conn = NewConn

InitTree ==
    /\ \E m \in TreeOrders : tree = NewBPlusTree(m)
    /\ inserted = <<>>
    /\ reloaded = FALSE
    /\ IdleDisk
    /\ IdleMem
    /\ IdleNet

\* tree.Insert(k, v)
TreeInsert ==
    /\ Len(inserted) < MaxInserts
    /\ \E k \in TreeKeys, v \in TreeVals :
          /\ tree' = Insert(tree, k, v)
          /\ inserted' = Append(inserted, <<k, v>>)
    /\ UNCHANGED <<reloaded, diskVars, memVars, netVars>>

\* SaveIndex at the end of one command and LoadIndex at the start of the
\* next: the tree is replaced by the one read back from its file
TreeReload ==
    /\ ~reloaded
    /\ tree' = deserializeBTree(serializeBTree(tree, "f", IndexOrder))
    /\ reloaded' = TRUE
    /\ UNCHANGED <<inserted, diskVars, memVars, netVars>>

\* a tree that only ever sees Insert calls
SpecTree == InitTree /\ [][TreeInsert]_vars

NextTreeReload == TreeInsert \/ TreeReload

\* a tree that is also saved and loaded between Insert calls
SpecTreeReload == InitTree /\ [][NextTreeReload]_vars

\* the tree of an index as the commands build it: CreateIndex and
\* RebuildAllIndexes make it with the order that SaveIndex writes
InitPersist ==
    /\ tree = NewBPlusTree(IndexOrder)
    /\ inserted = <<>>
    /\ reloaded = FALSE
    /\ IdleDisk
    /\ IdleMem
    /\ IdleNet

NextPersist == TreeInsert \/ TreeReload

\* an index that is built by Insert calls, saved, loaded and inserted into
SpecPersist == InitPersist /\ [][NextPersist]_vars

-----------------------------------------------------------------------------
(* What the call history says a lookup must return *)

\* the values given to Insert under key k, in call order
ValuesOf(log, k) ==
    LET RECURSIVE pick(_)
        pick(l) == IF l = <<>> THEN <<>>
                   ELSE IF l[1][1] = k THEN <<l[1][2]>> \o pick(Tail(l))
                   ELSE pick(Tail(l))
    IN  pick(log)

KeysOf(log) == {log[i][1] : i \in 1..Len(log)}

InRange(k, lo, hi, incLo, incHi) ==
    /\ (lo = NilKey \/ BytesCompare(k, lo) > 0 \/ (k = lo /\ incLo))
    /\ (hi = NilKey \/ BytesCompare(k, hi) < 0 \/ (k = hi /\ incHi))

Leaves(t) == {n \in 1..Len(t.nodes) : t.nodes[n].isLeaf}

\* the root is an internal node whose children are internal nodes
HasInternalSplit(t) ==
    /\ ~t.nodes[t.root].isLeaf
    /\ ~t.nodes[t.nodes[t.root].children[1]].isLeaf

\* C5: for every key given to Insert, the tree read back from its
\* serialized form answers Search with the same value list, in the same
\* order, as the tree that was serialized.
IndexRoundTrip ==
    \A k \in KeysOf(inserted) :
        Search(deserializeBTree(serializeBTree(tree, "f", IndexOrder)), k)
            = Search(tree, k)

\* C5 witness: a tree that went through leaf and internal splits, holds a
\* key with two values, and has not been reloaded yet.
IndexRoundTripWitness ==
    /\ ~reloaded
    /\ HasInternalSplit(tree)
    /\ \E k \in KeysOf(inserted) : Len(Search(tree, k)) >= 2

\* C6: RangeSearch returns, for every optional lo and hi and both
\* inclusivity flags, the values of exactly the inserted keys in the range,
\* in ascending key order, each key once.
RangeCorrect ==
    LET ks == Ascending(KeysOf(inserted))
        vals == [i \in 1..Len(ks) |-> ValuesOf(inserted, ks[i])]
        expected(lo, hi, incLo, incHi) ==
            Flatten([i \in 1..Len(ks) |->
                        IF InRange(ks[i], lo, hi, incLo, incHi)
                        THEN vals[i] ELSE <<>>])
    IN  \A lo \in TreeKeys \cup {NilKey}, hi \in TreeKeys \cup {NilKey},
           incLo \in BOOLEAN, incHi \in BOOLEAN :
            RangeSearch(tree, lo, hi, incLo, incHi)
                = expected(lo, hi, incLo, incHi)

\* C6 witness: a range whose ends lie in different leaves and that yields
\* at least three values.
RangeCorrectWitness ==
    \E lo \in TreeKeys, hi \in TreeKeys :
        /\ findLeaf(tree, tree.root, lo) # findLeaf(tree, tree.root, hi)
        /\ Cardinality(Leaves(tree)) >= 3
        /\ Len(RangeSearch(tree, lo, hi, TRUE, FALSE)) >= 3

\* C7: Search(k) returns exactly the values given to Insert under k, in
\* call order, and nothing for a key never inserted.
PointLookup ==
    \A k \in TreeKeys : Search(tree, k) = ValuesOf(inserted, k)

\* C7 witness: after a split, one key holds two values and another key of
\* the domain was never inserted.
PointLookupWitness ==
    /\ ~tree.nodes[tree.root].isLeaf
    /\ \E k \in TreeKeys : Len(Search(tree, k)) >= 2
    /\ \E k \in TreeKeys : k \notin KeysOf(inserted) /\ Search(tree, k) = <<>>

-----------------------------------------------------------------------------
(* Spec: commands run one after another, each a process of its own that    *)
(* loads the collection, works on it in memory and writes it back          *)

\* bound: the number of distinct ids generateID can return
MaxIds == 2

\* generateID returns "<UnixNano>-<rand>"; nothing compares it with the ids
\* already stored, so it is any id of the domain, a stored one included
Ids == {<<i>> : i \in 1..MaxIds}

FieldX == <<"x">>

\* the values a document or a query may hold: two numbers and the string "a"
DocVals == {Num(1), Num(2), Str(<<97>>)}

\* the documents given to insert: {} and {"x": v}
Payloads == {<<>>} \cup {FieldX :> v : v \in DocVals}

\* one condition on field x
OnX(pred) == {[field |-> FieldX, pred |-> pred]}

\* the queries given to find and delete:
\*   {}, {"x": 1}, {"x": {"$eq": 2}}, {"x": {"$gt": 1}}, {"x": {"$lt": 2}},
\*   {"x": {"$lt": "a"}}, {"x": {"$in": [1, 1]}}, {"x": {"$in": [2, "a"]}},
\*   {"x": {"$gt": 1, "$lt": 2}}
Queries ==
    {{},
     OnX(BarePred(Num(1))),
     OnX(OpsPred("$eq" :> Num(2))),
     OnX(OpsPred("$gt" :> Num(1))),
     OnX(OpsPred("$lt" :> Num(2))),
     OnX(OpsPred("$lt" :> Str(<<97>>))),
     OnX(OpsPred("$in" :> <<Num(1), Num(1)>>)),
     OnX(OpsPred("$in" :> <<Num(2), Str(<<97>>)>>)),
     OnX(OpsPred(("$gt" :> Num(1)) @@ ("$lt" :> Num(2))))}

Init == IdleTree /\ IdleDisk /\ IdleMem /\ IdleNet

\* bound: an index is not grown beyond this many (key, id) associations (an
\* insert under an id that is stored already adds an association and removes
\* none, so without the bound an index grows for ever)
MaxIndexEntries == 3

IndexesBelowBound(c) ==
    \A f \in DOMAIN c.Indexes : Len(GetAllValues(c.Indexes[f])) < MaxIndexEntries

\* cmdInsert on a collection of C with a document of P
cmdInsert(C, P) ==
    \E c \in C, fields \in P, id \in Ids : \E ord \in Perms(DOMAIN dataFiles[c]) :
        LET c0 == Loaded(c, ord)
            c1 == CollectionInsert(c0, id, fields)
        IN  /\ IndexesBelowBound(c0)
            /\ dataFiles' = [dataFiles EXCEPT ![c] = Save(c1)]
            /\ idxFiles' = SaveAllIndexes(c1, idxFiles)
            /\ out' = [cmd |-> "insert", coll |-> c, id |-> id]
            /\ insertOrder' = [insertOrder EXCEPT ![c] =
                                  IF id \in Range(@) THEN @ ELSE Append(@, id)]
            /\ UNCHANGED <<treeVars, memVars>>

\* cmdFind on a collection of C with a query of Q
cmdFind(C, Q) ==
    \E c \in C, q \in Q : \E ord \in Perms(DOMAIN dataFiles[c]) :
        /\ out' = [cmd |-> "find", coll |-> c, query |-> q,
                   result |-> FindResult(Loaded(c, ord), q)]
        /\ UNCHANGED <<dataFiles, idxFiles, insertOrder, treeVars, memVars>>

\* the loop of cmdDelete over coll.All()
DeleteMatching(c, conditions) ==
    LET allDocs == All(c)
        RECURSIVE del(_, _)
        del(i, cc) ==
            IF i > Len(allDocs) THEN cc
            ELSE IF MatchDocument(allDocs[i], conditions)
                 THEN del(i + 1, CollectionDelete(cc, allDocs[i][IdField].b))
                 ELSE del(i + 1, cc)
    IN  del(1, c)

\* cmdDelete on a collection of C with a query of Q
cmdDelete(C, Q) ==
    \E c \in C, q \in Q : \E ord \in Perms(DOMAIN dataFiles[c]) :
        LET c0 == Loaded(c, ord)
            c1 == DeleteMatching(c0, q)
            r == RebuildAllIndexes(c1, idxFiles)
        IN  /\ dataFiles' = [dataFiles EXCEPT ![c] = Save(c1)]
            /\ idxFiles' = r.files
            /\ out' = [cmd |-> "delete", coll |-> c, query |-> q,
                       deleted |-> Len(c0.Data) - Len(c1.Data)]
            /\ insertOrder' = [insertOrder EXCEPT ![c] =
                                  SelectSeq(@, LAMBDA x : HasKey(c1.Data, x))]
            /\ UNCHANGED <<treeVars, memVars>>

\* cmdCreateIndex on a collection of C: LoadCollection, then CreateIndex
cmdCreateIndex(C) ==
    \E c \in C : \E ord \in Perms(DOMAIN dataFiles[c]) :
        LET c0 == LoadCollection(c, dataFiles[c], ord)
            r == CreateIndex(c0, FieldX, IndexOrder, idxFiles)
        IN  /\ idxFiles' = IF r.err = "" THEN r.files ELSE idxFiles
            /\ out' = [cmd |-> "create_index", coll |-> c, field |-> FieldX,
                       err |-> r.err,
                       existed |-> IndexPath(c, FieldX) \in DOMAIN idxFiles]
            /\ UNCHANGED <<dataFiles, insertOrder, treeVars, memVars>>

InsertCmd == cmdInsert({CollA}, Payloads) /\ UNCHANGED netVars
FindCmd == cmdFind({CollA}, Queries) /\ UNCHANGED netVars
DeleteCmd == cmdDelete({CollA}, Queries) /\ UNCHANGED netVars
CreateIndexCmd == cmdCreateIndex({CollA}) /\ UNCHANGED netVars

Next == InsertCmd \/ FindCmd \/ DeleteCmd \/ CreateIndexCmd

Spec == Init /\ [][Next]_vars

-----------------------------------------------------------------------------
(* SpecAlias: the same commands on two collections, "a" and "a_b"          *)

AliasPayloads == {<<>>, FieldX :> Num(1)}
AliasQueries == {{}, OnX(BarePred(Num(1)))}

AliasInsertCmd == cmdInsert(AllColls, AliasPayloads) /\ UNCHANGED netVars
AliasDeleteCmd == cmdDelete(AllColls, AliasQueries) /\ UNCHANGED netVars
AliasCreateIndexCmd == cmdCreateIndex(AllColls) /\ UNCHANGED netVars

NextAlias == AliasInsertCmd \/ AliasDeleteCmd \/ AliasCreateIndexCmd

SpecAlias == Init /\ [][NextAlias]_vars

-----------------------------------------------------------------------------
(* SpecColl: the operations of one Collection object held in memory        *)

\* coll.Insert(doc)
CollInsert ==
    /\ IndexesBelowBound(coll)
    /\ \E fields \in Payloads, id \in Ids : coll' = CollectionInsert(coll, id, fields)
    /\ UNCHANGED <<insertLog, treeVars, diskVars, netVars>>

\* coll.Delete(id)
CollDelete ==
    /\ \E id \in Ids : coll' = CollectionDelete(coll, id)
    /\ UNCHANGED <<insertLog, treeVars, diskVars, netVars>>

\* coll.CreateIndex("x", 64)
CollCreateIndex ==
    LET r == CreateIndex(coll, FieldX, IndexOrder, idxFiles)
    IN  /\ coll' = r.coll
        /\ idxFiles' = r.files
        /\ UNCHANGED <<insertLog, treeVars, dataFiles, out, insertOrder, netVars>>

\* coll.RebuildAllIndexes()
CollRebuildAllIndexes ==
    LET r == RebuildAllIndexes(coll, idxFiles)
    IN  /\ coll' = r.coll
        /\ idxFiles' = r.files
        /\ UNCHANGED <<insertLog, treeVars, dataFiles, out, insertOrder, netVars>>

NextColl == CollInsert \/ CollDelete \/ CollCreateIndex \/ CollRebuildAllIndexes

SpecColl == Init /\ [][NextColl]_vars

-----------------------------------------------------------------------------
(* SpecDocs: inserts into one Collection object, with Save and             *)
(* LoadCollection between them                                             *)

\* bound: the number of Insert calls
MaxDocInserts == 3

\* coll.Insert(doc); the log keeps the document as stored
DocInsert ==
    /\ Len(insertLog) < MaxDocInserts
    /\ \E fields \in Payloads, id \in Ids :
          /\ coll' = CollectionInsert(coll, id, fields)
          /\ insertLog' = Append(insertLog, WithEntry(fields, IdField, Str(id)))
    /\ UNCHANGED <<treeVars, diskVars, netVars>>

\* coll.Save(), then LoadCollection(name)
DocSaveLoad ==
    /\ \E ord \in Perms(DOMAIN Save(coll)) :
          /\ dataFiles' = [dataFiles EXCEPT ![coll.Name] = Save(coll)]
          /\ coll' = LoadCollection(coll.Name, Save(coll), ord)
    /\ UNCHANGED <<insertLog, treeVars, idxFiles, out, insertOrder, netVars>>

NextDocs == DocInsert \/ DocSaveLoad

SpecDocs == Init /\ [][NextDocs]_vars

-----------------------------------------------------------------------------
(* SpecFail: commands on collection "a" whose writes may fail.  A write    *)
(* that fails returns its error and leaves its file as it was.             *)

\* the index files after SaveIndex has succeeded for the fields of written
SaveSome(c, written, files) ==
    LET RECURSIVE save(_, _)
        save(fields, fs) ==
            IF fields = {} THEN fs
            ELSE LET f == CHOOSE x \in fields : TRUE
                 IN  save(fields \ {f}, SaveIndex(c, f, fs))
    IN  save(written, files)

\* the sets of indexes written before SaveAllIndexes or RebuildAllIndexes
\* returns the error of a SaveIndex: any of them but all
WrittenBeforeError(c) == (SUBSET DOMAIN c.Indexes) \ {DOMAIN c.Indexes}

\* cmdInsert that returns "failed to save collection" (Save fails) or
\* "failed to save indexes" (a SaveIndex of SaveAllIndexes fails)
cmdInsertFails(C, P) ==
    \E c \in C, fields \in P, id \in Ids : \E ord \in Perms(DOMAIN dataFiles[c]) :
        LET c0 == Loaded(c, ord)
            c1 == CollectionInsert(c0, id, fields)
        IN  /\ IndexesBelowBound(c0)
            /\ \/ /\ UNCHANGED <<dataFiles, idxFiles, insertOrder>>
                  /\ out' = [cmd |-> "failed", of |-> "insert", coll |-> c,
                             at |-> "collection"]
               \/ /\ \E written \in WrittenBeforeError(c1) :
                         idxFiles' = SaveSome(c1, written, idxFiles)
                  /\ dataFiles' = [dataFiles EXCEPT ![c] = Save(c1)]
                  /\ insertOrder' = [insertOrder EXCEPT ![c] =
                                        IF id \in Range(@) THEN @ ELSE Append(@, id)]
                  /\ out' = [cmd |-> "failed", of |-> "insert", coll |-> c,
                             at |-> "indexes"]
            /\ UNCHANGED <<treeVars, memVars>>

\* cmdDelete that returns "failed to save collection" or "failed to rebuild
\* indexes"
cmdDeleteFails(C, Q) ==
    \E c \in C, q \in Q : \E ord \in Perms(DOMAIN dataFiles[c]) :
        LET c0 == Loaded(c, ord)
            c1 == DeleteMatching(c0, q)
            c2 == RebuildAllIndexes(c1, idxFiles).coll
        IN  /\ \/ /\ UNCHANGED <<dataFiles, idxFiles, insertOrder>>
                  /\ out' = [cmd |-> "failed", of |-> "delete", coll |-> c,
                             at |-> "collection"]
               \/ /\ \E written \in WrittenBeforeError(c2) :
                         idxFiles' = SaveSome(c2, written, idxFiles)
                  /\ dataFiles' = [dataFiles EXCEPT ![c] = Save(c1)]
                  /\ insertOrder' = [insertOrder EXCEPT ![c] =
                                        SelectSeq(@, LAMBDA x : HasKey(c1.Data, x))]
                  /\ out' = [cmd |-> "failed", of |-> "delete", coll |-> c,
                             at |-> "indexes"]
            /\ UNCHANGED <<treeVars, memVars>>

FailInsertCmd == cmdInsert({CollA}, AliasPayloads) /\ UNCHANGED netVars
FailCreateIndexCmd == cmdCreateIndex({CollA}) /\ UNCHANGED netVars
InsertFailsCmd == cmdInsertFails({CollA}, AliasPayloads) /\ UNCHANGED netVars
DeleteFailsCmd == cmdDeleteFails({CollA}, AliasQueries) /\ UNCHANGED netVars

NextFail == FailInsertCmd \/ FailCreateIndexCmd \/ InsertFailsCmd \/ DeleteFailsCmd

SpecFail == Init /\ [][NextFail]_vars

-----------------------------------------------------------------------------
(* SpecPlan: finds on collection "a" with the comparators the index path   *)
(* does not know                                                           *)

\* the queries: {"x": {"$gte": 1}}, {"x": {"$lte": 1}}, {"x": {"$like": "_"}},
\* {"x": {"$gte": 1, "$lte": 1}}
PlanQueries ==
    {OnX(OpsPred("$gte" :> Num(1))),
     OnX(OpsPred("$lte" :> Num(1))),
     OnX(OpsPred("$like" :> Str(<<Underscore>>))),
     OnX(OpsPred(("$gte" :> Num(1)) @@ ("$lte" :> Num(1))))}

PlanInsertCmd == cmdInsert({CollA}, Payloads) /\ UNCHANGED netVars
PlanCreateIndexCmd == cmdCreateIndex({CollA}) /\ UNCHANGED netVars
PlanFindCmd == cmdFind({CollA}, PlanQueries) /\ UNCHANGED netVars

NextPlan == PlanInsertCmd \/ PlanCreateIndexCmd \/ PlanFindCmd

SpecPlan == Init /\ [][NextPlan]_vars

-----------------------------------------------------------------------------
(* SpecRace: two connections, each in its own goroutine, run one insert    *)
(* command on collection "a".  A command is the steps of cmdInsert:        *)
(* LoadCollection, LoadAllIndexes and Insert, Save, SaveAllIndexes; the    *)
(* steps of the two commands interleave freely (no lock is taken).  Each   *)
(* read and each write of a file is one step.                              *)

\* os.WriteFile with a merge of what the file held
WriteFile_merge(old, data) == data @@ old

\* os.WriteFile: the file holds data, whatever it held
WriteFile(old, data) == data

\* an index created before the connections start
RaceCreateIndex ==
    /\ \A k \in Conns : race.conn[k].pc = "idle"
    /\ cmdCreateIndex({CollA})
    /\ UNCHANGED netVars

\* storage.LoadCollection(dbName)
RaceLoad(k) ==
    /\ race.conn[k].pc = "idle"
    /\ \E ord \in Perms(DOMAIN dataFiles[CollA]) :
          race' = [race EXCEPT !.conn[k] =
                      [pc |-> "loaded",
                       coll |-> LoadCollection(CollA, dataFiles[CollA], ord),
                       id |-> <<>>,
                       loaded |-> DOMAIN dataFiles[CollA]]]
    /\ UNCHANGED <<conn, treeVars, diskVars, memVars>>

\* coll.LoadAllIndexes(); coll.Insert(doc)
RaceInsert(k) ==
    /\ race.conn[k].pc = "loaded"
    /\ \E fields \in AliasPayloads, id \in Ids :
          race' = [race EXCEPT !.conn[k].pc = "inserted",
                               !.conn[k].id = id,
                               !.conn[k].coll =
                                   CollectionInsert(LoadAllIndexes(@, idxFiles), id, fields)]
    /\ UNCHANGED <<conn, treeVars, diskVars, memVars>>

\* coll.Save()
RaceSave(k) ==
    /\ race.conn[k].pc = "inserted"
    /\ dataFiles' = [dataFiles EXCEPT ![CollA] = WriteFile(@, Save(race.conn[k].coll))]
    /\ insertOrder' = [insertOrder EXCEPT ![CollA] =
          LET kept == SelectSeq(@, LAMBDA x : x \in DOMAIN dataFiles'[CollA])
          IN  IF race.conn[k].id \in Range(kept) THEN kept
              ELSE Append(kept, race.conn[k].id)]
    /\ race' = [race EXCEPT !.conn[k].pc = "saved", !.last = k]
    /\ UNCHANGED <<conn, treeVars, memVars, idxFiles, out>>

\* coll.SaveAllIndexes(); "Document inserted successfully"
RaceSaveAllIndexes(k) ==
    /\ race.conn[k].pc = "saved"
    /\ idxFiles' = SaveAllIndexes(race.conn[k].coll, idxFiles)
    /\ out' = [cmd |-> "insert", coll |-> CollA, id |-> race.conn[k].id]
    /\ race' = [race EXCEPT !.conn[k].pc = "done"]
    /\ UNCHANGED <<conn, treeVars, memVars, dataFiles, insertOrder>>

NextRace ==
    \/ RaceCreateIndex
    \/ \E k \in Conns : RaceLoad(k)
    \/ \E k \in Conns : RaceInsert(k)
    \/ \E k \in Conns : RaceSave(k)
    \/ \E k \in Conns : RaceSaveAllIndexes(k)

SpecRace == Init /\ [][NextRace]_vars

-----------------------------------------------------------------------------
(* SpecConn: one TCP connection in the loop of handleConnection: Decode,   *)
(* handlers.HandleRequest, Encode.  The goroutine of the connection is the *)
(* only one running, so the engine call is one step.                       *)

\* bound: the requests decoded on the connection
MaxRequests == 3

\* the commands a request may carry
RequestCmds == {"insert", "find"}

\* where the loop goes after encoder.Encode, without the return on error
AfterEncode_ignoreError(failed) == "decode"

\* where the loop goes after encoder.Encode: back to Decode, or out on error
AfterEncode(failed) == IF failed THEN "closed" ELSE "decode"

\* decoder.Decode(&req): a request, or io.EOF / a decode error and return
ConnDecode ==
    /\ conn.pc = "decode"
    /\ \/ /\ Len(conn.decoded) < MaxRequests
          /\ \E cmd \in RequestCmds :
                conn' = [conn EXCEPT !.pc = "handle", !.req = cmd,
                                     !.decoded = Append(@, cmd)]
       \/ conn' = [conn EXCEPT !.pc = "closed", !.err = TRUE]
    /\ UNCHANGED <<race, treeVars, diskVars, memVars>>

\* resp := handlers.HandleRequest(req): the engine runs the command
ConnHandle ==
    /\ conn.pc = "handle"
    /\ \/ conn.req = "insert" /\ cmdInsert({CollA}, AliasPayloads)
       \/ conn.req = "find" /\ cmdFind({CollA}, AliasQueries)
    /\ conn' = [conn EXCEPT !.pc = "encode", !.calls = Append(@, conn.req)]
    /\ UNCHANGED race

\* encoder.Encode(resp): the response is written, or an encode error and
\* return
ConnEncode ==
    /\ conn.pc = "encode"
    /\ \/ conn' = [conn EXCEPT !.pc = AfterEncode(FALSE),
                               !.sent = Append(@, [n |-> Len(conn.calls), cmd |-> out.cmd])]
       \/ conn' = [conn EXCEPT !.pc = AfterEncode(TRUE), !.err = TRUE]
    /\ UNCHANGED <<race, treeVars, diskVars, memVars>>

NextConn == ConnDecode \/ ConnHandle \/ ConnEncode

\* the goroutine keeps running: an engine call returns and an Encode returns
SpecConn ==
    Init /\ [][NextConn]_vars /\ WF_vars(ConnHandle) /\ WF_vars(ConnEncode)

-----------------------------------------------------------------------------
(* SpecDiverge: connection c1 runs an insert command and connection c2 a   *)
(* create_index or a delete command on the same collection, each in its    *)
(* own goroutine; a step is one read or one write of a file together with  *)
(* the work in memory that follows it.  Commands that ran before the two   *)
(* connections were accepted have filled the collection.                   *)

\* the queries given to the delete command: {} and {"x": 2}
DivergeQueries == {{}, OnX(BarePred(Num(2)))}

\* the connection that runs create_index or delete, before its request;
\* startedAt and endedAt note where the insert command was when this
\* command read its first file and when it wrote its last
IdleOther == [pc |-> "idle", coll |-> NewCollection(CollA), cmd |-> "none",
              query |-> {}, err |-> "", startedAt |-> "idle", endedAt |-> "idle"]

InitDiverge ==
    /\ IdleTree
    /\ IdleDisk
    /\ IdleMem
    /\ conn = NewConn
    /\ race = [conn |-> [k \in Conns |-> IF k = "c2" THEN IdleOther ELSE IdleInsert],
               last |-> "none"]

\* an insert command that ran before the connections were accepted
DivergeEarlierInsert ==
    /\ \A k \in Conns : race.conn[k].pc = "idle"
    /\ cmdInsert({CollA}, AliasPayloads)
    /\ UNCHANGED netVars

\* cmdCreateIndex: storage.LoadCollection(dbName)
DivergeCreateIndexLoad ==
    /\ race.conn["c2"].pc = "idle"
    /\ \E ord \in Perms(DOMAIN dataFiles[CollA]) :
          race' = [race EXCEPT !.conn["c2"] =
                      [@ EXCEPT !.pc = "ci_loaded",
                                !.cmd = "create_index",
                                !.coll = LoadCollection(CollA, dataFiles[CollA], ord),
                                !.startedAt = race.conn["c1"].pc]]
    /\ UNCHANGED <<conn, treeVars, diskVars, memVars>>

\* cmdCreateIndex: coll.CreateIndex(fieldName, 64), which ends in SaveIndex
DivergeCreateIndex ==
    /\ race.conn["c2"].pc = "ci_loaded"
    /\ LET r == CreateIndex(race.conn["c2"].coll, FieldX, IndexOrder, idxFiles)
       IN  /\ idxFiles' = r.files
           /\ out' = [cmd |-> "create_index", coll |-> CollA, field |-> FieldX,
                      err |-> r.err,
                      existed |-> IndexPath(CollA, FieldX) \in DOMAIN idxFiles]
           /\ race' = [race EXCEPT !.conn["c2"].pc = "done",
                                   !.conn["c2"].coll = r.coll,
                                   !.conn["c2"].err = r.err,
                                   !.conn["c2"].endedAt = race.conn["c1"].pc]
    /\ UNCHANGED <<conn, treeVars, memVars, dataFiles, insertOrder>>

\* cmdDelete: storage.LoadCollection(dbName)
DivergeDeleteLoad ==
    /\ race.conn["c2"].pc = "idle"
    /\ \E ord \in Perms(DOMAIN dataFiles[CollA]), q \in DivergeQueries :
          race' = [race EXCEPT !.conn["c2"] =
                      [@ EXCEPT !.pc = "del_loaded",
                                !.cmd = "delete",
                                !.query = q,
                                !.coll = LoadCollection(CollA, dataFiles[CollA], ord),
                                !.startedAt = race.conn["c1"].pc]]
    /\ UNCHANGED <<conn, treeVars, diskVars, memVars>>

\* cmdDelete: coll.LoadAllIndexes(), then the loop over coll.All()
DivergeDelete ==
    /\ race.conn["c2"].pc = "del_loaded"
    /\ race' = [race EXCEPT !.conn["c2"].pc = "deleted",
                            !.conn["c2"].coll =
                                DeleteMatching(LoadAllIndexes(@, idxFiles),
                                               race.conn["c2"].query)]
    /\ UNCHANGED <<conn, treeVars, diskVars, memVars>>

\* cmdDelete: coll.Save()
DivergeDeleteSave ==
    /\ race.conn["c2"].pc = "deleted"
    /\ dataFiles' = [dataFiles EXCEPT ![CollA] =
                        WriteFile(@, Save(race.conn["c2"].coll))]
    /\ insertOrder' = [insertOrder EXCEPT ![CollA] =
                          SelectSeq(@, LAMBDA x : x \in DOMAIN dataFiles'[CollA])]
    /\ race' = [race EXCEPT !.conn["c2"].pc = "del_saved", !.last = "c2"]
    /\ UNCHANGED <<conn, treeVars, memVars, idxFiles, out>>

\* cmdDelete: coll.RebuildAllIndexes(); "Deleted n document(s)."
DivergeDeleteRebuild ==
    /\ race.conn["c2"].pc = "del_saved"
    /\ LET r == RebuildAllIndexes(race.conn["c2"].coll, idxFiles)
       IN  /\ idxFiles' = r.files
           /\ out' = [cmd |-> "delete", coll |-> CollA,
                      query |-> race.conn["c2"].query]
           /\ race' = [race EXCEPT !.conn["c2"].pc = "done",
                                   !.conn["c2"].coll = r.coll,
                                   !.conn["c2"].endedAt = race.conn["c1"].pc]
    /\ UNCHANGED <<conn, treeVars, memVars, dataFiles, insertOrder>>

NextDiverge ==
    \/ DivergeEarlierInsert
    \/ RaceCreateIndex
    \/ RaceLoad("c1")
    \/ RaceInsert("c1")
    \/ RaceSave("c1")
    \/ RaceSaveAllIndexes("c1")
    \/ DivergeCreateIndexLoad
    \/ DivergeCreateIndex
    \/ DivergeDeleteLoad
    \/ DivergeDelete
    \/ DivergeDeleteSave
    \/ DivergeDeleteRebuild

SpecDiverge == InitDiverge /\ [][NextDiverge]_vars

-----------------------------------------------------------------------------
(* Properties of the commands                                              *)

\* the number of places of s that hold x
Count(s, x) == Cardinality({i \in 1..Len(s) : s[i] = x})

\* s and t hold the same elements the same number of times
SameBag(s, t) ==
    /\ Len(s) = Len(t)
    /\ \A x \in Range(s) \cup Range(t) : Count(s, x) = Count(t, x)

\* the _id of each document of a result
IdsOf(docs) == [i \in 1..Len(docs) |-> docs[i][IdField].b]

\* C1 (index/scan equivalence): after a find whose query is one condition on
\* an indexed field, whatever order the collection was loaded in, the
\* documents findWithIndex returns are, as a multiset, the documents
\* findFullScan returns for the same query on the same data.
IndexScanEquivalence ==
    (out.cmd = "find" /\ Cardinality(out.query) = 1) =>
        \A ord \in Perms(DOMAIN dataFiles[out.coll]) :
            LET c == Loaded(out.coll, ord)
                cond == CHOOSE x \in out.query : TRUE
            IN  UsesIndex(c, out.query) =>
                    SameBag(findWithIndex(c, cond.field, cond.pred),
                            findFullScan(c, out.query))

\* C8 (insertion-order preservation): a find with the empty query lists the
\* stored documents in the order in which they were inserted.
InsertionOrderPreserved ==
    (out.cmd = "find" /\ out.query = {}) =>
        IdsOf(out.result) = insertOrder[out.coll]

\* C9 (delete removes exactly the matching documents): a delete command with
\* query Q removes every stored document that matches Q and no other, leaves
\* the documents that stay unchanged, and a find Q that follows it returns
\* the empty result in whatever order the collection is loaded, the index
\* path included.
DeleteRemovesExactlyMatching ==
    [][out'.cmd = "delete" =>
          LET c == out'.coll
              q == out'.query
          IN  /\ DOMAIN dataFiles'[c] =
                     {id \in DOMAIN dataFiles[c] : ~MatchDocument(dataFiles[c][id], q)}
              /\ \A id \in DOMAIN dataFiles'[c] : dataFiles'[c][id] = dataFiles[c][id]
              /\ \A ord \in Perms(DOMAIN dataFiles'[c]) :
                     FindResult(LoadAllIndexes(LoadCollection(c, dataFiles'[c], ord),
                                               idxFiles'), q) = <<>>]_vars

\* C10 (create_index on an existing index): a create_index command on a field
\* whose index file exists already fails with the index-already-exists error.
CreateIndexFailsIfExists ==
    (out.cmd = "create_index" /\ out.existed) => out.err = "index already exists"

\* C2 (index completeness): after every command, every index file of a
\* collection on a field f holds, for every stored document d of the
\* collection in which f is present, the association (key(d[f]), d._id).
IndexComplete ==
    \A c \in AllColls :
        IndexPath(c, FieldX) \in DOMAIN idxFiles =>
            LET btree == deserializeBTree(idxFiles[IndexPath(c, FieldX)])
            IN  \A id \in DOMAIN dataFiles[c] :
                    FieldX \in DOMAIN dataFiles[c][id] =>
                        id \in Range(Search(btree, ValueToKey(dataFiles[c][id][FieldX])))

\* C3 (no dangling index entries): no index of the collection in memory
\* holds an association whose document id is absent from the document store.
NoDanglingEntries ==
    \A f \in DOMAIN coll.Indexes :
        LET t == coll.Indexes[f]
        IN  \A n \in Leaves(t) : \A j \in 1..Len(t.nodes[n].values) :
                \A id \in Range(t.nodes[n].values[j]) : HasKey(coll.Data, id)

\* C4 (document round-trip): after Save followed by LoadCollection, All()
\* returns exactly the set of the inserted documents, and the inserted
\* documents carry pairwise distinct _id values.
DocumentRoundTrip ==
    \A ord \in Perms(DOMAIN Save(coll)) :
        /\ Range(All(LoadCollection(coll.Name, Save(coll), ord))) = Range(insertLog)
        /\ \A i, j \in 1..Len(insertLog) :
               insertLog[i][IdField] = insertLog[j][IdField] => i = j

\* the one condition of a query that has exactly one
TheCondition(q) == CHOOSE x \in q : TRUE

\* C11 (comparators on one field are conjoined): every document a find
\* returns for a single condition with several comparators on its field
\* satisfies all of them, with or without an index on the field.
ComparatorsConjoined ==
    (/\ out.cmd = "find"
     /\ Cardinality(out.query) = 1
     /\ TheCondition(out.query).pred.kind = "ops"
     /\ Cardinality(DOMAIN TheCondition(out.query).pred.ops) > 1) =>
        \A i \in 1..Len(out.result) : MatchDocument(out.result[i], out.query)

\* C12 (cross-kind comparison fails): a find with $gt or $lt never returns a
\* document whose field value is of another kind than the operand, also when
\* the query is answered from the index.
CrossKindFails ==
    (/\ out.cmd = "find"
     /\ Cardinality(out.query) = 1
     /\ TheCondition(out.query).pred.kind = "ops") =>
        LET cond == TheCondition(out.query)
        IN  \A op \in DOMAIN cond.pred.ops \cap {"$gt", "$lt"} :
                \A i \in 1..Len(out.result) :
                    /\ cond.field \in DOMAIN out.result[i]
                    /\ out.result[i][cond.field].k = cond.pred.ops[op].k

\* C13 (durability in a sequential run): a document that an insert command
\* has stored is returned by every later find whose query it matches, until
\* a delete command whose query it matches completes.  Step by step: an
\* insert stores its document; every command other than a delete whose query
\* the document matches leaves a stored document stored and unchanged; a find
\* returns every stored document that matches its query.
Durability ==
    [][/\ out'.cmd = "insert" =>
              /\ out'.id \in DOMAIN dataFiles'[out'.coll]
              /\ dataFiles'[out'.coll][out'.id][IdField] = Str(out'.id)
       /\ \A c \in AllColls : \A id \in DOMAIN dataFiles[c] :
              ~(/\ out'.cmd = "delete"
                /\ out'.coll = c
                /\ MatchDocument(dataFiles[c][id], out'.query)) =>
                  /\ id \in DOMAIN dataFiles'[c]
                  /\ dataFiles'[c][id] = dataFiles[c][id]
       /\ out'.cmd = "find" =>
              \A id \in DOMAIN dataFiles[out'.coll] :
                  MatchDocument(dataFiles[out'.coll][id], out'.query) =>
                      dataFiles[out'.coll][id] \in Range(out'.result)]_vars

\* C14 (no partial commit): when an insert or delete command fails because
\* the write of the collection file or of an index file fails, the files the
\* next invocation reads, the collection file and the index files, are the
\* ones persisted before the failed command.
NoPartialCommit ==
    [][out'.cmd = "failed" => (dataFiles' = dataFiles /\ idxFiles' = idxFiles)]_vars

\* the find printed is one with a single condition on an indexed field whose
\* comparators are among $gte, $lte, $like
FallbackFind ==
    /\ out.cmd = "find"
    /\ Cardinality(out.query) = 1
    /\ TheCondition(out.query).pred.kind = "ops"
    /\ DOMAIN TheCondition(out.query).pred.ops # {}
    /\ DOMAIN TheCondition(out.query).pred.ops \subseteq {"$gte", "$lte", "$like"}
    /\ IndexPath(out.coll, TheCondition(out.query).field) \in DOMAIN idxFiles

\* C15 (planner fallback): a find with a single condition on an indexed
\* field whose comparators are among $gte, $lte and $like returns exactly the
\* stored documents the matcher accepts, in the order of the document store
\* (the order the collection was loaded in).
PlannerFallback ==
    FallbackFind =>
        \E ord \in Perms(DOMAIN dataFiles[out.coll]) :
            out.result =
                SelectSeq([i \in 1..Len(ord) |-> dataFiles[out.coll][ord[i]]],
                          LAMBDA doc : MatchDocument(doc, out.query))

\* a fallback find on two stored documents that returns one and not the other
PlannerFallbackWitness ==
    /\ FallbackFind
    /\ Cardinality(DOMAIN dataFiles[out.coll]) = 2
    /\ Len(out.result) = 1
    /\ "$gte" \in DOMAIN TheCondition(out.query).pred.ops

\* C16 (last writer wins): with two insert commands running at once, the
\* collection file is at every moment what the connection that saved last
\* wrote: the documents that connection had loaded plus its own.  A document
\* the other connection saved after that load is lost, although both
\* commands report success.
LastWriterWins ==
    \A k \in Conns :
        race.last = k =>
            /\ dataFiles[CollA] = Save(race.conn[k].coll)
            /\ DOMAIN dataFiles[CollA] = race.conn[k].loaded \cup {race.conn[k].id}

\* both commands have reported success, with different ids, and the file
\* lacks one of the two documents
LastWriterWinsWitness ==
    /\ \A k \in Conns : race.conn[k].pc = "done"
    /\ \A k, j \in Conns : k # j => race.conn[k].id # race.conn[j].id
    /\ \E k \in Conns : race.conn[k].id \notin DOMAIN dataFiles[CollA]

\* the requests, engine calls and responses of the connection agree: calls
\* are the decoded requests in order, at most one of them unanswered, and
\* response i answers request i
ConnInOrder ==
    /\ Len(conn.sent) <= Len(conn.calls)
    /\ Len(conn.calls) <= Len(conn.sent) + 1
    /\ Len(conn.calls) <= Len(conn.decoded)
    /\ Len(conn.decoded) <= Len(conn.calls) + 1
    /\ conn.calls = SubSeq(conn.decoded, 1, Len(conn.calls))
    /\ \A i \in 1..Len(conn.sent) : conn.sent[i] = [n |-> i, cmd |-> conn.decoded[i]]
    /\ conn.pc = "handle" => Len(conn.decoded) = Len(conn.sent) + 1
    /\ conn.pc = "encode" => Len(conn.calls) = Len(conn.sent) + 1

\* C17 (per-connection serialisation): on one connection the engine call for
\* a request starts only when every earlier request has had its response
\* encoded; one response is produced per decoded request, in request order
\* (a request whose engine call has started gets its response or the
\* connection ends on an encode error); after a decode or encode error no
\* further request is decoded or handled.
PerConnectionSerial ==
    /\ []ConnInOrder
    /\ [][Len(conn'.calls) > Len(conn.calls) =>
              (Len(conn.sent) = Len(conn.calls) /\ ~conn.err)]_vars
    /\ [][conn.err => conn' = conn]_vars
    /\ (conn.pc = "handle") ~> (conn.pc = "closed" \/ Len(conn.sent) = Len(conn.decoded))

\* an insert and a find were answered in that order, then the connection
\* ended on an error
PerConnectionSerialWitness ==
    /\ Len(conn.sent) = 2
    /\ conn.sent[1].cmd = "insert"
    /\ conn.sent[2].cmd = "find"
    /\ conn.err

-----------------------------------------------------------------------------
(* Properties of the shape of the B+tree                                   *)

\* the nodes that make up the tree
TreeNodes(t) == 1..Len(t.nodes)

\* the keys stored in the leaves of the subtree of node n
RECURSIVE SubtreeKeys(_, _)
SubtreeKeys(t, n) ==
    IF t.nodes[n].isLeaf THEN Range(t.nodes[n].keys)
    ELSE UNION {SubtreeKeys(t, t.nodes[n].children[i]) :
                    i \in 1..Len(t.nodes[n].children)}

\* C18 (separator invariant): every internal node has one more child than
\* keys; its i-th separator key is the smallest key stored under the child
\* to its right and is greater than every key stored under the child to
\* its left.
SeparatorInvariant ==
    \A n \in TreeNodes(tree) :
        LET node == tree.nodes[n]
        IN  ~node.isLeaf =>
                /\ Len(node.children) = Len(node.keys) + 1
                /\ \A i \in 1..Len(node.keys) :
                       /\ node.keys[i] \in SubtreeKeys(tree, node.children[i + 1])
                       /\ \A k \in SubtreeKeys(tree, node.children[i + 1]) :
                              BytesCompare(node.keys[i], k) <= 0
                       /\ \A k \in SubtreeKeys(tree, node.children[i]) :
                              BytesCompare(k, node.keys[i]) < 0

\* a tree whose root came out of an internal split: its children are
\* internal nodes, and the promoted key heads the leaves of the right one
SeparatorInvariantWitness ==
    /\ HasInternalSplit(tree)
    /\ Len(tree.nodes[tree.root].keys) = 1
    /\ Cardinality(Leaves(tree)) >= 3

\* the key of the last Insert call
LastKey(log) == log[Len(log)][1]

\* the nodes an Insert into node n creates when n takes one more key: none
\* unless n already holds 2m-1 keys (it then reaches 2m and splits, which
\* hands one key to its parent), and one more for the new root when the node
\* that splits is the root
RECURSIVE SplitsFrom(_, _)
SplitsFrom(t, n) ==
    IF Len(t.nodes[n].keys) # 2 * t.order - 1 THEN 0
    ELSE IF t.nodes[n].parent = Nil THEN 2
    ELSE 1 + SplitsFrom(t, t.nodes[n].parent)

\* C19 (node capacity): in a tree of order m no node, leaf or internal,
\* holds more than 2m-1 keys after an Insert; an Insert splits exactly the
\* nodes that reach 2m keys (a new key into a leaf of 2m-1 keys, then each
\* parent of 2m-1 keys in turn); and an Insert that splits the root makes a
\* new root with one key and two children, the old root being the left one.
NodeCapacity ==
    /\ [](\A n \in TreeNodes(tree) : Len(tree.nodes[n].keys) <= 2 * tree.order - 1)
    /\ [][inserted' # inserted =>
              LET key == LastKey(inserted')
                  leaf == findLeaf(tree, tree.root, key)
                  isNew == key \notin Range(tree.nodes[leaf].keys)
              IN  /\ Len(tree'.nodes) - Len(tree.nodes) =
                         IF isNew THEN SplitsFrom(tree, leaf) ELSE 0
                  /\ tree'.root # tree.root =>
                         /\ Len(tree'.nodes[tree'.root].keys) = 1
                         /\ Len(tree'.nodes[tree'.root].children) = 2
                         /\ tree'.nodes[tree'.root].children[1] = tree.root]_vars

\* a tree of order 2 whose root leaf reached 2m = 4 keys and split: the new
\* root holds one key over two leaves, none of which is over capacity
NodeCapacityWitness ==
    /\ tree.order = 2
    /\ ~tree.nodes[tree.root].isLeaf
    /\ Len(tree.nodes[tree.root].keys) = 1
    /\ Len(tree.nodes[tree.root].children) = 2
    /\ \A n \in Leaves(tree) : Len(tree.nodes[n].keys) = 2

(***************************************************************************)
(* Properties of the chain of leaves.                                      *)
(***************************************************************************)
\* the leaves met by following `next` from the leftmost leaf, in the order
\* they are met; the walk is cut after as many steps as there are nodes
LeafChainOf(t) ==
    LET RECURSIVE walk(_, _)
        walk(n, acc) ==
            IF n = Nil \/ Len(acc) = Len(t.nodes) THEN acc
            ELSE walk(t.nodes[n].next, Append(acc, n))
    IN  walk(findLeftmostLeaf(t, t.root), <<>>)

\* the keys met along the chain, leaf after leaf
ChainKeys(t) ==
    LET chain == LeafChainOf(t)
    IN  Flatten([i \in 1..Len(chain) |-> t.nodes[chain[i]].keys])

\* the values of the inserted keys, key after key in ascending order, each
\* key's values in the order they were inserted
ValuesInKeyOrder(log) ==
    LET sorted == Ascending(KeysOf(log))
    IN  Flatten([i \in 1..Len(sorted) |-> ValuesOf(log, sorted[i])])

\* C20 (leaf chain): after any sequence of Insert calls, following next from
\* the leftmost leaf meets every leaf of the tree exactly once and ends at
\* nil; the keys met along the chain are strictly ascending, so no key is in
\* two leaves; and GetAllValues returns every inserted value exactly once in
\* key order.
LeafChain ==
    LET chain == LeafChainOf(tree)
        keys == ChainKeys(tree)
    IN  /\ Range(chain) = TreeNodes(tree) \cap Leaves(tree)
        /\ \A i, j \in 1..Len(chain) : i # j => chain[i] # chain[j]
        /\ chain # <<>> /\ tree.nodes[chain[Len(chain)]].next = Nil
        /\ \A i, j \in 1..Len(keys) : i < j => BytesCompare(keys[i], keys[j]) < 0
        /\ Range(keys) = KeysOf(inserted)
        /\ GetAllValues(tree) = ValuesInKeyOrder(inserted)

\* a chain of three leaves or more that carries a key inserted twice and a
\* key that is a proper prefix of another
LeafChainWitness ==
    /\ Len(LeafChainOf(tree)) >= 3
    /\ \E k \in KeysOf(inserted) : Len(ValuesOf(inserted, k)) = 2
    /\ {<<1>>, <<1, 0>>} \subseteq KeysOf(inserted)

(***************************************************************************)
(* Properties of a tree that went through its file.                        *)
(***************************************************************************)
\* the keys and value lists of the leaves of t, leaf after leaf along next
ChainContent(t) ==
    LET chain == LeafChainOf(t)
    IN  [i \in 1..Len(chain) |->
            <<t.nodes[chain[i]].keys, t.nodes[chain[i]].values>>]

\* the invariants of a B+tree: node capacity, children and parent pointers
\* that agree, separators that split the keys of the subtrees, and a chain
\* of all the leaves in strictly ascending key order
WellFormed(t) ==
    /\ \A n \in TreeNodes(t) : Len(t.nodes[n].keys) <= 2 * t.order - 1
    /\ t.nodes[t.root].parent = Nil
    /\ \A n \in TreeNodes(t) : ~t.nodes[n].isLeaf =>
          LET node == t.nodes[n]
          IN  /\ Len(node.children) = Len(node.keys) + 1
              /\ \A i \in 1..Len(node.children) :
                    t.nodes[node.children[i]].parent = n
              /\ \A i \in 1..Len(node.keys) :
                    /\ \A k \in SubtreeKeys(t, node.children[i + 1]) :
                          BytesCompare(node.keys[i], k) <= 0
                    /\ \A k \in SubtreeKeys(t, node.children[i]) :
                          BytesCompare(k, node.keys[i]) < 0
    /\ LET chain == LeafChainOf(t)
           keys == ChainKeys(t)
       IN  /\ Range(chain) = Leaves(t)
           /\ Len(chain) = Cardinality(Leaves(t))
           /\ t.nodes[chain[Len(chain)]].next = Nil
           /\ \A i, j \in 1..Len(keys) :
                 i < j => BytesCompare(keys[i], keys[j]) < 0

\* C21 (scans survive persistence): the tree read back from the serialized
\* form of a tree built by Insert calls has its leaves chained in the same
\* left-to-right order, so RangeSearch (for every lo, hi and inclusivity)
\* and GetAllValues return the same sequences on both; and a tree that was
\* read back and then inserted into is a well-formed B+tree that holds what
\* was inserted.
ScansSurvivePersistence ==
    LET back == deserializeBTree(serializeBTree(tree, "f", IndexOrder))
    IN  /\ ChainContent(back) = ChainContent(tree)
        /\ GetAllValues(back) = GetAllValues(tree)
        /\ \A lo \in TreeKeys \cup {NilKey}, hi \in TreeKeys \cup {NilKey},
              incLo \in BOOLEAN, incHi \in BOOLEAN :
               RangeSearch(back, lo, hi, incLo, incHi)
                   = RangeSearch(tree, lo, hi, incLo, incHi)
        /\ WellFormed(back)
        /\ reloaded =>
              /\ WellFormed(tree)
              /\ GetAllValues(tree) = ValuesInKeyOrder(inserted)

\* a tree that was read back from its file when it had two levels, and
\* whose root then split under a later Insert: three levels, a chain of
\* three leaves or more
ScansSurvivePersistenceWitness ==
    /\ reloaded
    /\ tree.root # 1
    /\ HasInternalSplit(tree)
    /\ Len(LeafChainOf(tree)) >= 3

(***************************************************************************)
(* Properties of the results of find.                                      *)
(***************************************************************************)
\* the place of id in the order in which collection c was inserted into
InsertPos(c, id) == Min({i \in 1..Len(insertOrder[c]) : insertOrder[c][i] = id})

\* docs are in ascending order of the encoded key of field and, under one
\* key, in the order in which they were inserted into collection c
KeyThenInsertionOrder(c, field, docs) ==
    \A i, j \in 1..Len(docs) : i < j =>
        /\ field \in DOMAIN docs[i]
        /\ field \in DOMAIN docs[j]
        /\ LET ki == ValueToKey(docs[i][field])
               kj == ValueToKey(docs[j][field])
           IN  \/ BytesCompare(ki, kj) < 0
               \/ /\ ki = kj
                  /\ docs[i][IdField].b \in Range(insertOrder[c])
                  /\ docs[j][IdField].b \in Range(insertOrder[c])
                  /\ InsertPos(c, docs[i][IdField].b) < InsertPos(c, docs[j][IdField].b)

\* the condition is a bare value, or the operator findWithIndex picks from
\* it is $gt, $lt or $eq
OrderedLookup(pred) ==
    \/ pred.kind = "value"
    \/ pred.kind = "ops" /\ DOMAIN pred.ops \cap {"$gt", "$lt", "$eq"} # {}

\* C22 (index-path result order): after a find that is answered from the
\* index with a bare value, $gt, $lt or $eq, whatever order the collection
\* was loaded in, the documents come in ascending order of the encoded key
\* and, under one key, in the order in which they were inserted; the index
\* is the one on disk, written by create_index, insert or delete.
IndexResultOrder ==
    (out.cmd = "find" /\ Cardinality(out.query) = 1) =>
        \A ord \in Perms(DOMAIN dataFiles[out.coll]) :
            LET c == Loaded(out.coll, ord)
                cond == CHOOSE x \in out.query : TRUE
                r == findWithIndex(c, cond.field, cond.pred)
            IN  (UsesIndex(c, out.query) /\ OrderedLookup(cond.pred) /\ r # <<>>) =>
                    KeyThenInsertionOrder(out.coll, cond.field, r)

\* C23 (no duplicate results): the result of a find command, whatever the
\* query and whichever of the index path and the full scan answered it,
\* holds each stored document at most once.
NoDuplicateResults ==
    out.cmd = "find" =>
        \A i, j \in 1..Len(out.result) :
            i # j => out.result[i][IdField] # out.result[j][IdField]

(***************************************************************************)
(* Properties of the index files of several collections.                   *)
(***************************************************************************)
\* the index files written for collection c: create_index is only ever
\* given field x
IndexFilesOf(c) == {IndexPath(c, FieldX)} \cap DOMAIN idxFiles

\* C24 (index discovery isolation): LoadAllIndexes for a collection loads
\* only the index files written for that collection, under the field they
\* were created for, also when the name of another collection extends its
\* name with an underscore; and no insert or delete command on a collection
\* changes an index file of another collection.
IndexDiscoveryIsolation ==
    /\ [](\A c \in AllColls :
             LET loaded == LoadAllIndexes(NewCollection(c), idxFiles)
             IN  DOMAIN loaded.Indexes = IF IndexFilesOf(c) = {} THEN {} ELSE {FieldX})
    /\ [][out'.cmd \in {"insert", "delete"} =>
              \A d \in AllColls \ {out'.coll} : \A path \in IndexFilesOf(d) :
                  /\ path \in DOMAIN idxFiles'
                  /\ idxFiles'[path] = idxFiles[path]]_vars

(***************************************************************************)
(* Properties of commands that run at the same time.                       *)
(***************************************************************************)
\* the stored documents of collection a that have field x and that the
\* index file of a on x, if there is one, does not hold under their key
MissingFromIndex ==
    IF IndexPath(CollA, FieldX) \notin DOMAIN idxFiles THEN {}
    ELSE LET btree == deserializeBTree(idxFiles[IndexPath(CollA, FieldX)])
         IN  {id \in DOMAIN dataFiles[CollA] :
                 /\ FieldX \in DOMAIN dataFiles[CollA][id]
                 /\ id \notin Range(Search(btree,
                                           ValueToKey(dataFiles[CollA][id][FieldX])))}

\* both commands have returned without an error
BothSucceeded ==
    /\ \A k \in Conns : race.conn[k].pc = "done"
    /\ race.conn["c2"].err = ""

\* neither command had returned when the other read its first file
RanConcurrently ==
    /\ race.conn["c2"].startedAt # "done"
    /\ race.conn["c2"].endedAt # "idle"

\* a find {"x": v} for the value v of document id is answered from the
\* index, in whatever order the collection is loaded, without the document,
\* which the full scan returns
FindOmits(id) ==
    LET q == OnX(BarePred(dataFiles[CollA][id][FieldX]))
    IN  \A ord \in Perms(DOMAIN dataFiles[CollA]) :
            LET c == Loaded(CollA, ord)
            IN  /\ UsesIndex(c, q)
                /\ FindResult(c, q) # <<>>
                /\ FindResult(c, q) # findFullScan(c, q)
                /\ id \notin Range(IdsOf(FindResult(c, q)))
                /\ id \in Range(IdsOf(findFullScan(c, q)))

\* the index holds a stored document under the key of document id
KeyIsIndexed(id) ==
    LET btree == deserializeBTree(idxFiles[IndexPath(CollA, FieldX)])
    IN  \E other \in DOMAIN dataFiles[CollA] :
            other \in Range(Search(btree, ValueToKey(dataFiles[CollA][id][FieldX])))

\* C25 (index/data divergence under concurrency): once an insert command
\* and a create_index or delete command on one collection have both
\* succeeded, a stored document with field x is missing from the index file
\* on x only if the two commands ran concurrently; and a later find on the
\* value of a missing document, when the index holds that value for another
\* document, is answered from the index without the missing document,
\* which a full scan returns.  The witness is such an outcome.
DivergenceUnderConcurrency ==
    BothSucceeded =>
        /\ MissingFromIndex # {} => RanConcurrently
        /\ \A id \in MissingFromIndex : KeyIsIndexed(id) => FindOmits(id)

\* the insert command and the create_index command have both succeeded, the
\* document the insert stored is missing from the index, and a find on its
\* value omits it
DivergenceUnderConcurrencyWitness ==
    /\ BothSucceeded
    /\ race.conn["c2"].cmd = "create_index"
    /\ race.conn["c1"].id \in MissingFromIndex
    /\ KeyIsIndexed(race.conn["c1"].id)
    /\ FindOmits(race.conn["c1"].id)

====
